---------------------------- MODULE Spec2Model ----------------------------
(***************************************************************************)
(* Model of ai-sdk-provider-github's credential core:                      *)
(*   src/src/cli-token-store.ts  (credential documents and their lookup)   *)
(*   src/src/auth-manager.ts     (AuthManager: token cache, token          *)
(*                                exchange, device flow)                   *)
(*   src/src/index.ts            (the fetch wrappers of the provider       *)
(*                                handles)                                 *)
(*                                                                         *)
(* JavaScript values are tagged records [t, v].  A string is a sequence of *)
(* chunks (each chunk a run of characters), so that concatenation is       *)
(* sequence concatenation and startsWith is a prefix test on sequences.    *)
(***************************************************************************)
EXTENDS Integers, Sequences, FiniteSets, TLC

(***************************************************************************)
(* JavaScript values                                                       *)
(***************************************************************************)
Null == [t |-> "null", v |-> <<>>]
Undefined == [t |-> "undefined", v |-> <<>>]
Str(s) == [t |-> "string", v |-> s]
Num(n) == [t |-> "number", v |-> <<n>>]
\* An object is the sequence of its own <<key, value>> entries in insertion
\* order (the order Object.entries and Object.keys enumerate string keys in).
Obj(entries) == [t |-> "object", v |-> entries]

\* typeof x === 'string'
IsString(x) == x.t = "string"
\* typeof x === 'object' && x !== null
IsObject(x) == x.t = "object"

\* JavaScript truthiness: what `if (x)` and `!x` test.
Truthy(x) ==
    CASE x.t = "string" -> Len(x.v) > 0
      [] x.t = "number" -> x.v[1] # 0
      [] x.t = "object" -> TRUE
      [] OTHER -> FALSE

\* s.startsWith(p) on chunk sequences
StartsWith(s, p) == Len(s) >= Len(p) /\ SubSeq(s, 1, Len(p)) = p

\* Object.entries(data): the own enumerable string-keyed properties.  Of the
\* non-object values a document can parse to, a number has none and null is
\* never passed (readCliToken tests the document for truthiness first); a
\* string has only index keys, which no host name equals.
ObjectEntries(data) == IF IsObject(data) THEN data.v ELSE <<>>

\* data[key]: the value of the first (only) entry with that key, else undefined.
RECURSIVE LookupFrom(_, _, _)
LookupFrom(entries, key, i) ==
    IF i > Len(entries) THEN Undefined
    ELSE IF entries[i][1] = key THEN entries[i][2]
    ELSE LookupFrom(entries, key, i + 1)

Get(data, key) == LookupFrom(ObjectEntries(data), key, 1)

(***************************************************************************)
(* String constants of the source                                          *)
(***************************************************************************)
GHO == <<"gho_">>
GHU == <<"ghu_">>
COLON == <<":">>
OAUTH_TOKEN == <<"oauth_token">>
UPDATED_AT == <<"updated_at">>
GITHUB_COM == <<"github", ".com">>

(***************************************************************************)
(* cli-token-store.ts                                                      *)
(***************************************************************************)
\* A file is [st, json]: st is "missing", "unreadable" (readFileSync throws),
\* "malformed" (JSON.parse throws) or "ok" with json the parsed value.
File(st, json) == [st |-> st, json |-> json]
MissingFile == File("missing", Null)

tryReadJson(file) == IF file.st = "ok" THEN file.json ELSE Null

\* The tokens pushed by the loop of extractTokenFromApps, in document order.
RECURSIVE AppsTokensFrom(_, _, _)
AppsTokensFrom(entries, host, i) ==
    IF i > Len(entries) THEN <<>>
    ELSE LET key == entries[i][1]
             value == entries[i][2]
             rest == AppsTokensFrom(entries, host, i + 1)
         IN IF /\ (key = host \/ StartsWith(key, host \o COLON))
               /\ IsObject(value)
               /\ IsString(Get(value, OAUTH_TOKEN))
            THEN <<Get(value, OAUTH_TOKEN)>> \o rest
            ELSE rest

\* Mutant of FindOAuth: no token is recognised as OAuth-class.
FindOAuth_None(tokens, i) == 0

\* tokens.find(t => t.isOAuth): index of the first gho_ token, 0 if none.
RECURSIVE FindOAuth(_, _)
FindOAuth(tokens, i) ==
    IF i > Len(tokens) THEN 0
    ELSE IF StartsWith(tokens[i].v, GHO) THEN i
    ELSE FindOAuth(tokens, i + 1)

\* Mutant of extractTokenFromApps: the fallback is the last collected token.
extractTokenFromApps_LastMatch(data, host) ==
    LET tokens == AppsTokensFrom(ObjectEntries(data), host, 1)
        k == FindOAuth(tokens, 1)
    IN IF k > 0 THEN tokens[k]
       ELSE IF Len(tokens) > 0 THEN tokens[Len(tokens)]
       ELSE Null

extractTokenFromApps(data, host) ==
    LET tokens == AppsTokensFrom(ObjectEntries(data), host, 1)
        k == FindOAuth(tokens, 1)
    IN IF k > 0 THEN tokens[k]
       ELSE IF Len(tokens) > 0 THEN tokens[1]
       ELSE Null

\* Mutant of HostsFlatFrom: any string value is taken for a token.
RECURSIVE HostsFlatFrom_AnyString(_, _, _)
HostsFlatFrom_AnyString(entries, host, i) ==
    IF i > Len(entries) THEN Null
    ELSE IF StartsWith(entries[i][1], host \o COLON) /\ IsString(entries[i][2])
    THEN entries[i][2]
    ELSE HostsFlatFrom_AnyString(entries, host, i + 1)

\* The loop over Object.keys(data) of extractTokenFromHosts ("host:user").
RECURSIVE HostsFlatFrom(_, _, _)
HostsFlatFrom(entries, host, i) ==
    IF i > Len(entries) THEN Null
    ELSE LET key == entries[i][1]
             value == entries[i][2]
         IN IF /\ StartsWith(key, host \o COLON)
               /\ IsString(value)
               /\ (StartsWith(value.v, GHO) \/ StartsWith(value.v, GHU))
            THEN value
            ELSE HostsFlatFrom(entries, host, i + 1)

extractTokenFromHosts(data, host) ==
    LET hostData == Get(data, host)
    IN IF IsObject(hostData) /\ IsString(Get(hostData, OAUTH_TOKEN))
       THEN Get(hostData, OAUTH_TOKEN)
       ELSE HostsFlatFrom(ObjectEntries(data), host, 1)

\* readCliToken(host) over the three files it reads.
readCliToken(host, apps, hosts, local) ==
    LET appsData == tryReadJson(apps)
        appsTok == extractTokenFromApps(appsData, host)
        hostsData == tryReadJson(hosts)
        hostsTok == extractTokenFromHosts(hostsData, host)
        localData == tryReadJson(local)
    IN IF Truthy(appsData) /\ Truthy(appsTok) THEN appsTok
       ELSE IF Truthy(hostsData) /\ Truthy(hostsTok) THEN hostsTok
       ELSE IF Truthy(Get(localData, OAUTH_TOKEN)) THEN Get(localData, OAUTH_TOKEN)
       ELSE Null

\* saveLocalToken(token): the file after the call.  A failed write throws
\* inside the try block, is swallowed, and leaves the file as it was.
saveLocalToken(local, token, iso, writeOk) ==
    IF writeOk
    THEN File("ok", Obj(<< <<OAUTH_TOKEN, token>>, <<UPDATED_AT, Str(iso)>> >>))
    ELSE local

\* Mutant of saveLocalTokenThrows: a failed write propagates to the caller.
saveLocalTokenThrows_Propagates(writeOk) == ~writeOk

\* Whether saveLocalToken(token) throws: its try/catch turns a failed write
\* into a normal return.
saveLocalTokenThrows(writeOk) == FALSE

(***************************************************************************)
(* auth-manager.ts: constants and helpers                                  *)
(***************************************************************************)
EXPIRY_BUFFER_MS == 5 * 60 * 1000

AUTHORIZATION_PENDING == <<"authorization_pending">>

\* url.replace(/^https?:\/\//, '').replace(/\/$/, '')
normalizeDomain(url) ==
    LET a == IF Len(url) > 0 /\ url[1] \in {"http://", "https://"}
             THEN Tail(url) ELSE url
    IN IF Len(a) > 0 /\ a[Len(a)] = "/" THEN SubSeq(a, 1, Len(a) - 1) ELSE a

\* getUrls(domain)
getUrls(d) ==
    [deviceCodeUrl |-> <<"https://">> \o d \o <<"/login/device/code">>,
     accessTokenUrl |-> <<"https://">> \o d \o <<"/login/oauth/access_token">>,
     copilotTokenUrl |-> <<"https://api.">> \o d \o <<"/copilot_internal/v2/token">>]

CLIENT_ID == <<"Iv1.b507a08c87ecfe98">>

\* An object of strings (a header set, a JSON body) is a function from its
\* keys to chunk sequences.  Keys are case-sensitive, as object keys are.
COPILOT_HEADERS ==
    ("User-Agent" :> <<"GitHubCopilotChat/0.32.4">>)
    @@ ("Editor-Version" :> <<"vscode/1.105.1">>)
    @@ ("Editor-Plugin-Version" :> <<"copilot-chat/0.32.4">>)
    @@ ("Copilot-Integration-Id" :> <<"vscode-chat">>)

\* { ...a, ...b }: the entries of b win over those of a.
Spread(a, b) == b @@ a

\* `${x}` in a template literal.
TemplateString(x) ==
    CASE x.t = "string" -> x.v
      [] x.t = "number" -> <<ToString(x.v[1])>>
      [] x.t = "object" -> <<"[object Object]">>
      [] OTHER -> <<x.t>>

NoRequest == [method |-> "none"]
Request(method, url, headers, body) ==
    [method |-> method, url |-> url, headers |-> headers, body |-> body]

\* Mutant of ExchangeRequest: the call sends nothing.
ExchangeRequest_None(d, tok) == NoRequest

\* Lines 111-118: the token-exchange request.
ExchangeRequest(d, tok) ==
    Request("GET", getUrls(d).copilotTokenUrl,
            Spread(("Accept" :> <<"application/json">>)
                   @@ ("Authorization" :> <<"Bearer ">> \o TemplateString(tok)),
                   COPILOT_HEADERS),
            <<>>)

\* Lines 151-162: the device-code request.
DeviceCodeRequest(d) ==
    Request("POST", getUrls(d).deviceCodeUrl,
            ("Accept" :> <<"application/json">>)
            @@ ("Content-Type" :> <<"application/json">>)
            @@ ("User-Agent" :> <<"GitHubCopilotChat/0.35.0">>),
            ("client_id" :> CLIENT_ID) @@ ("scope" :> <<"read:user">>))

\* Lines 192-204: the access-token request of one loop iteration.
AccessTokenRequest(accessTokenUrl, deviceCode) ==
    Request("POST", accessTokenUrl,
            ("Accept" :> <<"application/json">>)
            @@ ("Content-Type" :> <<"application/json">>)
            @@ ("User-Agent" :> <<"GitHubCopilotChat/0.35.0">>),
            ("client_id" :> CLIENT_ID)
            @@ ("device_code" :> deviceCode)
            @@ ("grant_type" :> <<"urn:ietf:params:oauth:grant-type:device_code">>))

\* The domain field as the constructor sets it.
ConstructorDomain(opts) ==
    IF Truthy(opts.enterpriseUrl) THEN normalizeDomain(opts.enterpriseUrl.v)
    ELSE GITHUB_COM

\* The oauthToken field as the constructor sets it.
ConstructorToken(opts, apps, hosts, local) ==
    IF Truthy(opts.oauthToken) THEN opts.oauthToken
    ELSE readCliToken(ConstructorDomain(opts), apps, hosts, local)

\* Mutants of CacheUsable: the comparison inverted; the boundary included;
\* no entry ever served.
CacheUsable_Inverted(cache, t) ==
    Len(cache) > 0 /\ cache[1].expiresAt < t + EXPIRY_BUFFER_MS
CacheUsable_Inclusive(cache, t) ==
    Len(cache) > 0 /\ cache[1].expiresAt >= t + EXPIRY_BUFFER_MS
CacheUsable_Never(cache, t) == FALSE

\* The test of line 96: a cache entry is served only if this holds.
\* cache is <<>> for null, <<entry>> for an entry.
CacheUsable(cache, t) ==
    Len(cache) > 0 /\ cache[1].expiresAt > t + EXPIRY_BUFFER_MS

\* The test of line 102: !this.oauthToken
MissingOAuthToken_Never(tok) == FALSE
MissingOAuthToken_Inverted(tok) == Truthy(tok)
MissingOAuthToken(tok) == ~Truthy(tok)

\* Mutant of CacheEntry: the expiry kept in seconds.
CacheEntry_Seconds(data) == [token |-> data.token, expiresAt |-> data.expires_at]

\* Mutant of CacheEntry: the token of the response with an expiry that is
\* not the response's.
CacheEntry_OtherExpiry(data) ==
    [token |-> data.token, expiresAt |-> (data.expires_at + 1) * 1000]

\* Mutant of CacheEntry: a fixed token, whatever the response's.
CacheEntry_FirstToken(data) ==
    [token |-> Str(<<"tid=", "1">>), expiresAt |-> data.expires_at * 1000]

\* The entry getValidToken builds from the exchange response body.
CacheEntry(data) == [token |-> data.token, expiresAt |-> data.expires_at * 1000]

(***************************************************************************)
(* Bounds of the model                                                     *)
(***************************************************************************)
NumCallers == 2      \* concurrent callers of getValidToken
NumFlows == 1        \* initiateDeviceFlow invocations
MaxTicks == 2        \* the clock runs from 0 to MaxTicks * TickMs
MaxExpiryTicks == 4  \* expires_at is at most MaxExpiryTicks * TickSecs
MaxPolls == 3        \* access-token requests of one pollForToken call
MaxEntries == 2      \* entries of a credential document

Callers == 1 .. NumCallers
Flows == 1 .. NumFlows

\* The clock's granularity: half the refresh buffer, so that an expiry inside
\* the buffer, on its boundary and beyond it all occur.
TickMs == EXPIRY_BUFFER_MS \div 2
TickSecs == TickMs \div 1000

(***************************************************************************)
(* State                                                                   *)
(***************************************************************************)
VARIABLES
    options,       \* the constructor's argument: [oauthToken, enterpriseUrl]
    appsFile,      \* <configDir>/apps.json
    hostsFile,     \* <configDir>/hosts.json
    localFile,     \* ~/.ai-sdk-github-auth.json (LOCAL_AUTH_FILE)
    constructed,   \* whether the AuthManager's constructor has run
    domain,        \* AuthManager.domain
    oauthToken,    \* AuthManager.oauthToken
    cachedToken,   \* AuthManager.cachedToken: <<>> for null, else <<entry>>
    exchanged,     \* history: <<>>, or <<body, bearer>> of the success
                   \* response whose call completed last and of the credential
                   \* its request bore
    now,           \* Date.now(), in milliseconds
    gpc,           \* per caller: where its getValidToken() call stands
    greq,          \* per caller: the bearer credential of its request, until
                   \* the call completes
    gfetch,        \* per caller: its token-exchange request in flight
    gresp,         \* per caller: the exchange response it is about to handle
    gout,          \* per caller: how its last completed call ended
    fpc,           \* per flow: where initiateDeviceFlow / pollDeviceFlow stands
    fresp,         \* per flow: the response it is about to handle
    fpolls,        \* per flow: access-token requests issued by its poll call
    fpending,      \* per flow: "authorization_pending" answers its poll call handled
    fsaved,        \* per flow: tokens its poll call handed to saveLocalToken
    fout,          \* per flow: how its initiateDeviceFlow() call ended
    freq,          \* per flow: its request in flight
    fwrite,        \* per flow: how the write of saveLocalToken went
    factory,       \* the factory of index.ts that made the provider handle
    wrapper,       \* the function whose fetch wrapper the handle uses
    apc,           \* per caller: where its call of the handle's fetch stands
    asent          \* per caller: <<>>, or <<headers>> of the API request its
                   \* fetch call sent

storeVars == <<options, appsFile, hostsFile, localFile>>
managerVars == <<constructed, domain, oauthToken, cachedToken, exchanged>>
callerVars == <<gpc, greq, gfetch, gresp, gout>>
flowVars == <<fpc, fresp, fpolls, fpending, fsaved, fout, freq, fwrite>>
providerVars == <<factory, wrapper, apc, asent>>
vars == <<storeVars, managerVars, now, callerVars, flowVars, providerVars>>

(***************************************************************************)
(* Inputs                                                                  *)
(***************************************************************************)
\* Sequences over S of length at most n.
SeqsUpTo(S, n) == UNION {[1 .. k -> S] : k \in 0 .. n}

\* A parsed JSON object has no two entries with the same key.
DistinctKeys(entries) ==
    \A i, j \in 1 .. Len(entries) : entries[i][1] = entries[j][1] => i = j

GITHUB_COM_AU == GITHUB_COM \o <<".au">>
NoResponse == [ok |-> FALSE, none |-> TRUE]

OptionTokens == {Undefined, Str(<<>>), Str(GHO \o <<"opt">>)}
OptionUrls == {Undefined, Str(<<"https://">> \o GITHUB_COM_AU \o <<"/">>)}
OptionSet == [oauthToken : OptionTokens, enterpriseUrl : OptionUrls]

TokenRecord(tok) == Obj(<< <<OAUTH_TOKEN, tok>> >>)

AppsEntries ==
    { <<GITHUB_COM \o COLON \o <<"Iv1">>, TokenRecord(Str(GHO \o <<"a1">>))>>,
      <<GITHUB_COM, TokenRecord(Str(GHU \o <<"a2">>))>>,
      <<GITHUB_COM \o COLON \o <<"Iv2">>, TokenRecord(Str(<<>>))>>,
      <<GITHUB_COM \o COLON \o <<"Iv2">>, TokenRecord(Num(7))>>,
      <<GITHUB_COM \o COLON \o <<"Iv3">>, Str(GHO \o <<"a5">>)>>,
      <<GITHUB_COM \o COLON \o <<"Iv4">>, TokenRecord(Str(GHO \o <<"a7">>))>>,
      <<GITHUB_COM_AU \o COLON \o <<"Iv1">>, TokenRecord(Str(GHO \o <<"a6">>))>> }

HostsEntries ==
    { <<GITHUB_COM, TokenRecord(Str(GHU \o <<"h1">>))>>,
      <<GITHUB_COM \o COLON \o <<"alice">>, Str(GHO \o <<"h2">>)>>,
      <<GITHUB_COM \o COLON \o <<"bob">>, Str(GHU \o <<"h3">>)>>,
      <<GITHUB_COM \o COLON \o <<"carol">>, Str(<<"pat_", "h4">>)>>,
      <<GITHUB_COM, TokenRecord(Num(7))>>,
      <<GITHUB_COM_AU, TokenRecord(Str(GHO \o <<"h6">>))>> }

\* What a file that is not a JSON object can be.
BadFiles ==
    { MissingFile, File("unreadable", Null), File("malformed", Null),
      File("ok", Null), File("ok", Num(5)), File("ok", Str(<<"text">>)) }

DocFiles(entrySet) ==
    {File("ok", Obj(e)) : e \in {d \in SeqsUpTo(entrySet, MaxEntries) : DistinctKeys(d)}}

AppsFiles == BadFiles \cup DocFiles(AppsEntries)
HostsFiles == BadFiles \cup DocFiles(HostsEntries)
LocalFiles ==
    { MissingFile, File("malformed", Null), File("ok", Num(5)),
      File("ok", Obj(<<>>)),
      File("ok", TokenRecord(Str(GHO \o <<"loc">>))),
      File("ok", TokenRecord(Str(<<>>))),
      File("ok", TokenRecord(Num(7))) }


\* response.ok
Ok(resp) == resp.status \in 200 .. 299

ApiTokens == {Str(<<"tid=", "1">>), Str(<<"tid=", "2">>)}
\* The expiries on the buffer's boundary at some clock value, and around it.
ExpirySecs == {k * TickSecs : k \in (MaxExpiryTicks - 2) .. MaxExpiryTicks}

\* Answers of the token-exchange endpoint: a success carries the JSON body
\* {token, expires_at}; a failure carries a raw text body.
ExchangeResponses ==
    [status : {200}, data : [token : ApiTokens, expires_at : ExpirySecs], text : {<<>>}]
    \cup [status : {401, 500}, data : {Null}, text : {<<"Bad credentials">>}]

\* Answers of the device-code endpoint.
DeviceCodeData ==
    [device_code |-> <<"dc">>, user_code |-> <<"WDJB-MJHT">>,
     verification_uri |-> <<"https://github.com/login/device">>, interval |-> 5]
DeviceCodeResponses ==
    [status : {200}, data : {DeviceCodeData}, text : {<<>>}]
    \cup [status : {403}, data : {Null}, text : {<<"Forbidden">>}]

\* Answers of the access-token endpoint: the two fields pollDeviceFlow reads.
DeviceToken == Str(GHO \o <<"df">>)
AccessTokenResponses ==
    [status : {200},
     data : [access_token : {Undefined, Str(<<>>), DeviceToken},
             error : {Undefined, Str(<<>>), Str(AUTHORIZATION_PENDING),
                      Str(<<"access_denied">>)}]]
    \cup [status : {400},
          data : [access_token : {Undefined, DeviceToken}, error : {Undefined}]]

\* new Date().toISOString(): the timestamp written to updated_at.  No code
\* reads the field back, so every clock value is written as the same string.
toISOString(t) == <<"iso-8601">>

(***************************************************************************)
(* Outcomes of a call                                                      *)
(***************************************************************************)
NoOutcome == [kind |-> "none"]
Return(line, value) == [kind |-> "return", line |-> line, value |-> value]
NO_TOKEN_MESSAGE ==
    <<"No OAuth token available. Run initiateDeviceFlow() first or provide an oauthToken in options.">>
ExchangeFailedMessage_NoBody(status, text) ==
    <<"Token exchange failed (", ToString(status), ")">>
ExchangeFailedMessage(status, text) ==
    <<"Token exchange failed (", ToString(status), "): ">> \o text
Throw(line, message) == [kind |-> "throw", line |-> line, message |-> message]
DeviceFlowFailedMessage(status, text) ==
    <<"Device flow initiation failed (", ToString(status), "): ">> \o text

(***************************************************************************)
(* Initial states                                                          *)
(***************************************************************************)
\* The callers and flows before any call.
InitCalls ==
    /\ now = 0
    /\ gpc = [c \in Callers |-> "idle"]
    /\ greq = [c \in Callers |-> Null]
    /\ gfetch = [c \in Callers |-> NoRequest]
    /\ gresp = [c \in Callers |-> NoResponse]
    /\ gout = [c \in Callers |-> NoOutcome]
    /\ fpc = [f \in Flows |-> "idle"]
    /\ fresp = [f \in Flows |-> NoResponse]
    /\ fpolls = [f \in Flows |-> 0]
    /\ fpending = [f \in Flows |-> 0]
    /\ fsaved = [f \in Flows |-> <<>>]
    /\ fout = [f \in Flows |-> NoOutcome]
    /\ freq = [f \in Flows |-> NoRequest]
    /\ fwrite = [f \in Flows |-> "none"]
    /\ apc = [c \in Callers |-> "idle"]
    /\ asent = [c \in Callers |-> <<>>]

\* Before the constructor runs: the field initialisers of lines 51-52.
InitStore ==
    /\ options \in OptionSet
    /\ appsFile \in AppsFiles
    /\ hostsFile \in HostsFiles
    /\ localFile \in LocalFiles
    /\ constructed = FALSE
    /\ domain = <<>>
    /\ oauthToken = Null
    /\ cachedToken = <<>>
    /\ exchanged = <<>>
    /\ factory = "none"
    /\ wrapper = "none"
    /\ InitCalls

\* new AuthManager(options)
Construct ==
    /\ ~constructed
    /\ constructed' = TRUE
    /\ domain' = ConstructorDomain(options)
    /\ oauthToken' = ConstructorToken(options, appsFile, hostsFile, localFile)
    /\ UNCHANGED <<storeVars, cachedToken, exchanged, now, callerVars, flowVars,
                   providerVars>>

NextStore == Construct

SpecStore == InitStore /\ [][NextStore]_vars


\* After construction.  The runtime specification starts from the managers
\* that an explicit credential, a locally persisted one or none gives, used
\* directly (index.ts exports AuthManager), with no provider handle.
Init ==
    /\ options \in [oauthToken : {Undefined, Str(GHO \o <<"opt">>)},
                    enterpriseUrl : {Undefined}]
    /\ appsFile = MissingFile
    /\ hostsFile = MissingFile
    /\ localFile = MissingFile
    /\ constructed = TRUE
    /\ domain = ConstructorDomain(options)
    /\ oauthToken = ConstructorToken(options, appsFile, hostsFile, localFile)
    /\ cachedToken = <<>>
    /\ exchanged = <<>>
    /\ factory = "none"
    /\ wrapper = "none"
    /\ InitCalls

(***************************************************************************)
(* The clock                                                               *)
(***************************************************************************)
Tick ==
    /\ now < MaxTicks * TickMs
    /\ now' = now + TickMs
    /\ UNCHANGED <<storeVars, managerVars, callerVars, flowVars, providerVars>>

(***************************************************************************)
(* AuthManager.getValidToken                                               *)
(***************************************************************************)
\* A caller not inside a call.
Outside(c) == gpc[c] \in {"idle", "returned", "threw"}

\* Lines 94-118: from the call to the first suspension (await fetch), or to
\* the return of line 98, or to the throw of line 103.
GetValidToken_Enter(c) ==
    /\ constructed
    /\ Outside(c)
    /\ IF CacheUsable(cachedToken, now)
       THEN /\ gpc' = [gpc EXCEPT ![c] = "returned"]
            /\ gout' = [gout EXCEPT ![c] = Return(98, cachedToken[1].token)]
            /\ UNCHANGED <<greq, gfetch>>
       ELSE IF MissingOAuthToken(oauthToken)
       THEN /\ gpc' = [gpc EXCEPT ![c] = "threw"]
            /\ gout' = [gout EXCEPT ![c] = Throw(103, NO_TOKEN_MESSAGE)]
            /\ UNCHANGED <<greq, gfetch>>
       ELSE /\ gpc' = [gpc EXCEPT ![c] = "fetch"]
            /\ greq' = [greq EXCEPT ![c] = oauthToken]
            /\ gfetch' = [gfetch EXCEPT ![c] = ExchangeRequest(domain, oauthToken)]
            /\ gout' = [gout EXCEPT ![c] = NoOutcome]
    /\ UNCHANGED <<storeVars, managerVars, now, gresp, flowVars>>

\* getValidToken() called on the manager directly.
GetValidToken_Call(c) ==
    /\ apc[c] # "token"
    /\ GetValidToken_Enter(c)
    /\ UNCHANGED providerVars

\* The token-exchange endpoint answers the caller's request.
ExchangeRespond(c, resp) ==
    /\ gpc[c] = "fetch"
    /\ gpc' = [gpc EXCEPT ![c] = "response"]
    /\ gfetch' = [gfetch EXCEPT ![c] = NoRequest]
    /\ gresp' = [gresp EXCEPT ![c] = resp]
    /\ UNCHANGED <<storeVars, managerVars, now, greq, gout, flowVars, providerVars>>

\* Lines 120-134: the continuation once the response body has been read
\* (await response.text() / await response.json()): throw, or write the cache
\* and return, with no suspension in between.
GetValidToken_Resume(c) ==
    /\ gpc[c] = "response"
    /\ gresp' = [gresp EXCEPT ![c] = NoResponse]
    /\ greq' = [greq EXCEPT ![c] = Null]
    /\ IF ~Ok(gresp[c])
       THEN /\ gpc' = [gpc EXCEPT ![c] = "threw"]
            /\ gout' = [gout EXCEPT ![c] =
                   Throw(122, ExchangeFailedMessage(gresp[c].status, gresp[c].text))]
            /\ UNCHANGED <<cachedToken, exchanged>>
       ELSE /\ cachedToken' = <<CacheEntry(gresp[c].data)>>
            /\ exchanged' = <<gresp[c].data, greq[c]>>
            /\ gpc' = [gpc EXCEPT ![c] = "returned"]
            /\ gout' = [gout EXCEPT ![c] = Return(134, cachedToken'[1].token)]
    /\ UNCHANGED <<storeVars, constructed, domain, oauthToken, now, gfetch,
                   flowVars, providerVars>>


(***************************************************************************)
(* AuthManager.initiateDeviceFlow and pollDeviceFlow                       *)
(***************************************************************************)
\* Lines 142-162: the call, up to the await of the device-code request.
InitiateDeviceFlow_Call(f) ==
    /\ constructed
    /\ fpc[f] = "idle"
    /\ fpc' = [fpc EXCEPT ![f] = "deviceCode"]
    /\ freq' = [freq EXCEPT ![f] = DeviceCodeRequest(domain)]
    /\ UNCHANGED <<storeVars, managerVars, now, callerVars, providerVars, fresp, fpolls,
                   fpending,
                   fsaved, fout, fwrite>>

\* The device-code endpoint answers.
DeviceCodeRespond(f, resp) ==
    /\ fpc[f] = "deviceCode"
    /\ fpc' = [fpc EXCEPT ![f] = "deviceCodeResponse"]
    /\ freq' = [freq EXCEPT ![f] = NoRequest]
    /\ fresp' = [fresp EXCEPT ![f] = resp]
    /\ UNCHANGED <<storeVars, managerVars, now, callerVars, providerVars, fpolls, fpending,
                   fsaved,
                   fout, fwrite>>

\* Lines 177-179: the pollForToken closure, as the values it captures.
PollForToken(data, urls) ==
    [deviceCode |-> data.device_code, interval |-> data.interval,
     accessTokenUrl |-> urls.accessTokenUrl]

\* Mutants of InitiateOutcome: a polling callable handed out whatever the
\* status; the user code handed out as the verification URI.
InitiateOutcome_AlwaysCallable(resp, urls) ==
    Return(174, [verificationUri |-> <<>>, userCode |-> <<>>,
                 pollForToken |-> [deviceCode |-> <<>>, interval |-> 0,
                                   accessTokenUrl |-> urls.accessTokenUrl]])
InitiateOutcome_UserCodeAsUri(resp, urls) ==
    IF ~Ok(resp)
    THEN Throw(166, DeviceFlowFailedMessage(resp.status, resp.text))
    ELSE Return(174, [verificationUri |-> resp.data.user_code,
                      userCode |-> resp.data.user_code,
                      pollForToken |-> PollForToken(resp.data, urls)])

\* Lines 164-180: what initiateDeviceFlow throws or returns for a response.
InitiateOutcome(resp, urls) ==
    IF ~Ok(resp)
    THEN Throw(166, DeviceFlowFailedMessage(resp.status, resp.text))
    ELSE Return(174, [verificationUri |-> resp.data.verification_uri,
                      userCode |-> resp.data.user_code,
                      pollForToken |-> PollForToken(resp.data, urls)])

\* Lines 164-180: throw, or hand the caller the polling callable.
InitiateDeviceFlow_Resume(f) ==
    /\ fpc[f] = "deviceCodeResponse"
    /\ fout' = [fout EXCEPT ![f] = InitiateOutcome(fresp[f], getUrls(domain))]
    /\ fpc' = [fpc EXCEPT ![f] =
                 IF fout'[f].kind = "return" THEN "ready" ELSE "initThrew"]
    /\ fresp' = [fresp EXCEPT ![f] = NoResponse]
    /\ UNCHANGED <<storeVars, managerVars, now, callerVars, providerVars, fpolls, fpending,
                   fsaved,
                   freq, fwrite>>

\* Mutants of PollOutcome: the error code tested before the access token;
\* every error code taken for "authorization_pending"; the access token
\* taken whatever the status; a failed status retried; an answer with
\* neither token nor error code taken for a denial; a denial retried.
PollOutcome_ErrorFirst(resp) ==
    IF ~Ok(resp) THEN "returned208"
    ELSE IF resp.data.error = Str(AUTHORIZATION_PENDING) THEN "sleep225"
    ELSE IF Truthy(resp.data.error) THEN "returned231"
    ELSE IF Truthy(resp.data.access_token) THEN "returned220"
    ELSE "sleep235"
PollOutcome_AnyErrorPending(resp) ==
    IF ~Ok(resp) THEN "returned208"
    ELSE IF Truthy(resp.data.access_token) THEN "returned220"
    ELSE IF Truthy(resp.data.error) THEN "sleep225"
    ELSE "sleep235"

PollOutcome_RetryOnError(resp) ==
    IF ~Ok(resp) THEN "sleep235"
    ELSE IF Truthy(resp.data.access_token) THEN "returned220"
    ELSE IF resp.data.error = Str(AUTHORIZATION_PENDING) THEN "sleep225"
    ELSE IF Truthy(resp.data.error) THEN "returned231"
    ELSE "sleep235"
PollOutcome_UnknownDenied(resp) ==
    IF ~Ok(resp) THEN "returned208"
    ELSE IF Truthy(resp.data.access_token) THEN "returned220"
    ELSE IF resp.data.error = Str(AUTHORIZATION_PENDING) THEN "sleep225"
    ELSE "returned231"
PollOutcome_DenialRetried(resp) ==
    IF ~Ok(resp) THEN "returned208"
    ELSE IF Truthy(resp.data.access_token) THEN "returned220"
    ELSE IF resp.data.error = Str(AUTHORIZATION_PENDING) THEN "sleep225"
    ELSE "sleep235"
PollOutcome_IgnoreStatus(resp) ==
    IF Truthy(resp.data.access_token) THEN "returned220"
    ELSE IF ~Ok(resp) THEN "returned208"
    ELSE IF resp.data.error = Str(AUTHORIZATION_PENDING) THEN "sleep225"
    ELSE IF Truthy(resp.data.error) THEN "returned231"
    ELSE "sleep235"

\* Lines 206-236: where one loop iteration ends for a response, named by the
\* line of its return statement or of its timer.
PollOutcome(resp) ==
    IF ~Ok(resp) THEN "returned208"
    ELSE IF Truthy(resp.data.access_token) THEN "returned220"
    ELSE IF resp.data.error = Str(AUTHORIZATION_PENDING) THEN "sleep225"
    ELSE IF Truthy(resp.data.error) THEN "returned231"
    ELSE "sleep235"

\* The boolean pollDeviceFlow returns at each of its return statements.
PollReturned(pc) == pc \in {"returned208", "returned220", "returned231"}
PollResult(pc) == pc = "returned220"

\* The caller invokes pollForToken: lines 177-178 and 191-204, up to the
\* await of the first request.  (A second invocation of the callable shares
\* nothing with the first but the manager; it behaves as another flow does.)
PollForToken_Call(f) ==
    /\ fpc[f] = "ready"
    /\ fpolls' = [fpolls EXCEPT ![f] = 1]
    /\ fpc' = [fpc EXCEPT ![f] = "poll"]
    /\ freq' = [freq EXCEPT ![f] =
                  AccessTokenRequest(fout[f].value.pollForToken.accessTokenUrl,
                                     fout[f].value.pollForToken.deviceCode)]
    /\ UNCHANGED <<storeVars, managerVars, now, callerVars, providerVars, fresp, fpending,
                   fsaved,
                   fout, fwrite>>

\* The access-token endpoint answers.
AccessTokenRespond(f, resp) ==
    /\ fpc[f] = "poll"
    /\ fpc' = [fpc EXCEPT ![f] = "pollResponse"]
    /\ freq' = [freq EXCEPT ![f] = NoRequest]
    /\ fresp' = [fresp EXCEPT ![f] = resp]
    /\ UNCHANGED <<storeVars, managerVars, now, callerVars, providerVars, fpolls, fpending,
                   fsaved,
                   fout, fwrite>>

\* Lines 206-236: the classification of one response, up to a return or to
\* the await of the timer.  writeOk is whether writeFileSync succeeds; an
\* exception leaving saveLocalToken would reject the call at line 217, after
\* the assignment of line 214.
PollDeviceFlow_Resume(f, writeOk) ==
    /\ fpc[f] = "pollResponse"
    /\ fresp' = [fresp EXCEPT ![f] = NoResponse]
    /\ fpc' = [fpc EXCEPT ![f] =
                 IF PollOutcome(fresp[f]) = "returned220" /\ saveLocalTokenThrows(writeOk)
                 THEN "threw217" ELSE PollOutcome(fresp[f])]
    /\ fwrite' = [fwrite EXCEPT ![f] =
                    IF PollOutcome(fresp[f]) # "returned220" THEN @
                    ELSE IF writeOk THEN "written" ELSE "failed"]
    /\ fpending' = [fpending EXCEPT ![f] =
                      IF PollOutcome(fresp[f]) = "sleep225" THEN @ + 1 ELSE @]
    /\ IF PollOutcome(fresp[f]) = "returned220"
       THEN /\ oauthToken' = fresp[f].data.access_token
            /\ localFile' = saveLocalToken(localFile, fresp[f].data.access_token,
                                           toISOString(now), writeOk)
            /\ fsaved' = [fsaved EXCEPT ![f] = Append(@, fresp[f].data.access_token)]
       ELSE UNCHANGED <<oauthToken, localFile, fsaved>>
    /\ UNCHANGED <<options, appsFile, hostsFile, constructed, domain, cachedToken,
                   exchanged, now, callerVars, providerVars, fpolls, fout, freq>>

\* The timer of line 225 or 235 fires: the loop issues the next request.
PollDeviceFlow_Wake(f) ==
    /\ fpc[f] \in {"sleep225", "sleep235"}
    /\ fpolls[f] < MaxPolls
    /\ fpolls' = [fpolls EXCEPT ![f] = @ + 1]
    /\ fpc' = [fpc EXCEPT ![f] = "poll"]
    /\ freq' = [freq EXCEPT ![f] =
                  AccessTokenRequest(fout[f].value.pollForToken.accessTokenUrl,
                                     fout[f].value.pollForToken.deviceCode)]
    /\ UNCHANGED <<storeVars, managerVars, now, callerVars, providerVars, fresp, fpending,
                   fsaved,
                   fout, fwrite>>

(***************************************************************************)
(* index.ts: the provider handles and their fetch wrappers                 *)
(***************************************************************************)
\* AuthManager.hasOAuthToken()
hasOAuthToken(tok) == tok # Null

\* AuthManager.getCopilotHeaders()
getCopilotHeaders == COPILOT_HEADERS

\* delete headers[k] for every k in keys
Delete(headers, keys) == [n \in DOMAIN headers \ keys |-> headers[n]]

\* The function whose fetch wrapper serves the handle a factory returns:
\* createCopilotWithDeviceFlow returns createCopilot(options) when the
\* manager it constructed has a credential (a second manager, constructed
\* from the same options and files), else a proxy over the provider of
\* createProviderAfterAuth.
HandleWrapper(fac, tok) ==
    IF fac = "createCopilotWithDeviceFlow" /\ ~hasOAuthToken(tok)
    THEN "createProviderAfterAuth"
    ELSE "createCopilot"

RESPONSES_API_ALTERNATE_INPUT_TYPES ==
    {"file_search_call", "computer_call", "computer_call_output", "web_search_call",
     "function_call", "function_call_output", "image_generation_call",
     "code_interpreter_call", "local_shell_call", "local_shell_call_output",
     "mcp_list_tools", "mcp_approval_request", "mcp_approval_response", "mcp_call",
     "reasoning"}

\* The body of an API request: [kind |-> "undefined"] (no body),
\* [kind |-> "unparsable"] (a string JSON.parse rejects), or the parsed JSON
\* [kind |-> "json", messages, input], each of the two <<>> for an absent
\* field and <<items>> for an array.  An item is [role, type, parts]: the
\* value of role and of type ("" if absent) and the types of the parts of an
\* array content (<<>> for a string content).
NoBody == [kind |-> "undefined"]
UnparsableBody == [kind |-> "unparsable"]
JsonBody(messages, input) == [kind |-> "json", messages |-> messages, input |-> input]
Item(role, type, parts) == [role |-> role, type |-> type, parts |-> parts]

\* Lines 79-113: isAgentCall and isVisionRequest.
BodyFlags(body) ==
    IF body.kind # "json" THEN [agent |-> FALSE, vision |-> FALSE]
    ELSE LET chat ==
                 IF body.messages = <<>> THEN [agent |-> FALSE, vision |-> FALSE]
                 ELSE LET msgs == body.messages[1]
                      IN [agent |-> \E i \in 1 .. Len(msgs) :
                                      msgs[i].role \in {"tool", "assistant"},
                          vision |-> \E i \in 1 .. Len(msgs) :
                                       \E j \in 1 .. Len(msgs[i].parts) :
                                         msgs[i].parts[j] = "image_url"]
         IN IF body.input = <<>> THEN chat
            ELSE LET items == body.input[1]
                 IN IF items = <<>> THEN [agent |-> FALSE, vision |-> FALSE]
                    ELSE LET lastInput == items[Len(items)]
                         IN [agent |-> \/ lastInput.role = "assistant"
                                       \/ lastInput.type \in RESPONSES_API_ALTERNATE_INPUT_TYPES,
                             vision |-> \E j \in 1 .. Len(lastInput.parts) :
                                          lastInput.parts[j] = "input_image"]

\* Lines 116-132 of createCopilot's fetch: the headers it passes on.
CreateCopilotHeaders(token, init) ==
    LET flags == BodyFlags(init.body)
        headers ==
            Spread(Spread(getCopilotHeaders, init.headers),
                   ("Authorization" :> <<"Bearer ">> \o TemplateString(token))
                   @@ ("Openai-Intent" :> <<"conversation-edits">>)
                   @@ ("X-Initiator" :> IF flags.agent THEN <<"agent">> ELSE <<"user">>))
        vision ==
            IF flags.vision
            THEN Spread(headers, "Copilot-Vision-Request" :> <<"true">>)
            ELSE headers
    IN Delete(vision, {"x-api-key", "authorization"})

\* Lines 203-214 of createProviderAfterAuth's fetch: the headers it passes on.
ProviderAfterAuthHeaders(token, init) ==
    Spread(Spread(getCopilotHeaders, init.headers),
           "Authorization" :> <<"Bearer ">> \o TemplateString(token))

WrapperHeaders(w, token, init) ==
    IF w = "createCopilot" THEN CreateCopilotHeaders(token, init)
    ELSE ProviderAfterAuthHeaders(token, init)

\* The handle exists: createCopilot returns it at once;
\* createCopilotWithDeviceFlow returns it once its initiateDeviceFlow() call
\* has returned.
HandleExists ==
    \/ wrapper = "createCopilot"
    \/ wrapper = "createProviderAfterAuth" /\ \E f \in Flows : fout[f].kind = "return"

\* The handle's fetch is called (index.ts lines 74-76, 203-204): it calls
\* getValidToken() at once.
ProviderFetch_Call(c) ==
    /\ HandleExists
    /\ apc[c] # "token"
    /\ GetValidToken_Enter(c)
    /\ apc' = [apc EXCEPT ![c] = "token"]
    /\ asent' = [asent EXCEPT ![c] = <<>>]
    /\ UNCHANGED <<factory, wrapper>>

\* The await of getValidToken() ends: the wrapper rejects if it threw, else
\* builds the headers and calls the global fetch.  init is the argument the
\* fetch was called with, read here for the first time.
ProviderFetch_Resume(c, init) ==
    /\ apc[c] = "token"
    /\ gpc[c] \in {"returned", "threw"}
    /\ IF gout[c].kind = "throw"
       THEN /\ apc' = [apc EXCEPT ![c] = "rejected"]
            /\ UNCHANGED asent
       ELSE /\ apc' = [apc EXCEPT ![c] = "sent"]
            /\ asent' = [asent EXCEPT ![c] = <<WrapperHeaders(wrapper, gout[c].value, init)>>]
    /\ UNCHANGED <<storeVars, managerVars, now, callerVars, flowVars, factory, wrapper>>

(***************************************************************************)
(* Specification                                                           *)
(***************************************************************************)
Next ==
    \/ Tick
    \/ \E c \in Callers : GetValidToken_Call(c)
    \/ \E c \in Callers : \E resp \in ExchangeResponses : ExchangeRespond(c, resp)
    \/ \E c \in Callers : GetValidToken_Resume(c)
    \/ \E f \in Flows : InitiateDeviceFlow_Call(f)
    \/ \E f \in Flows : \E resp \in DeviceCodeResponses : DeviceCodeRespond(f, resp)
    \/ \E f \in Flows : InitiateDeviceFlow_Resume(f)
    \/ \E f \in Flows : PollForToken_Call(f)
    \/ \E f \in Flows : \E resp \in AccessTokenResponses : AccessTokenRespond(f, resp)
    \/ \E f \in Flows : \E writeOk \in BOOLEAN : PollDeviceFlow_Resume(f, writeOk)
    \/ \E f \in Flows : PollDeviceFlow_Wake(f)

Spec == Init /\ [][Next]_vars


\* getValidToken alone: overlapping callers and the clock, no device flow.
NextToken ==
    \/ Tick
    \/ \E c \in Callers : GetValidToken_Call(c)
    \/ \E c \in Callers : \E resp \in ExchangeResponses : ExchangeRespond(c, resp)
    \/ \E c \in Callers : GetValidToken_Resume(c)

SpecToken == Init /\ [][NextToken]_vars

\* The device flow alone: no getValidToken call.
NextFlow ==
    \/ \E f \in Flows : InitiateDeviceFlow_Call(f)
    \/ \E f \in Flows : \E resp \in DeviceCodeResponses : DeviceCodeRespond(f, resp)
    \/ \E f \in Flows : InitiateDeviceFlow_Resume(f)
    \/ \E f \in Flows : PollForToken_Call(f)
    \/ \E f \in Flows : \E resp \in AccessTokenResponses : AccessTokenRespond(f, resp)
    \/ \E f \in Flows : \E writeOk \in BOOLEAN : PollDeviceFlow_Resume(f, writeOk)
    \/ \E f \in Flows : PollDeviceFlow_Wake(f)

SpecFlow == Init /\ [][NextFlow]_vars

\* The device flow with the scheduling of the event loop: once the fetch of
\* line 192 has settled, the continuation of pollDeviceFlow runs.  Nothing is
\* assumed of the network or of the answers it gives.
SpecFlowLive ==
    /\ Init
    /\ [][NextFlow]_vars
    /\ \A f \in Flows : WF_vars(\E writeOk \in BOOLEAN : PollDeviceFlow_Resume(f, writeOk))

\* The provider handles.  A handle is made by one of the two factories over
\* a manager constructed with or without a credential.
Factories == {"createCopilot", "createCopilotWithDeviceFlow"}

InitProvider ==
    /\ factory \in Factories
    /\ options \in [oauthToken : IF factory = "createCopilot"
                                 THEN {Undefined, Str(GHO \o <<"opt">>)}
                                 ELSE {Undefined},
                    enterpriseUrl : {Undefined}]
    /\ appsFile = MissingFile
    /\ hostsFile = MissingFile
    /\ localFile \in {MissingFile, File("ok", TokenRecord(Str(GHO \o <<"loc">>)))}
    /\ constructed = TRUE
    /\ domain = ConstructorDomain(options)
    /\ oauthToken = ConstructorToken(options, appsFile, hostsFile, localFile)
    /\ cachedToken = <<>>
    /\ exchanged = <<>>
    /\ wrapper = HandleWrapper(factory, oauthToken)
    /\ InitCalls

\* The arguments of the handle's fetch.
ApiHeaders ==
    { <<>>,
      ("authorization" :> <<"Bearer ", "stale">>) @@ ("x-api-key" :> <<"key">>)
      @@ ("X-Initiator" :> <<"custom">>) }
ApiBodies ==
    { NoBody, UnparsableBody,
      JsonBody(<< <<Item("user", "", <<>>)>> >>, <<>>),
      JsonBody(<< <<Item("user", "", <<"text", "image_url">>),
                    Item("assistant", "", <<>>)>> >>, <<>>),
      JsonBody(<<>>, << <<Item("", "function_call_output", <<>>)>> >>) }
ApiInits == [headers : ApiHeaders, body : ApiBodies]

\* The manager behind a handle is private to it: getValidToken() is called
\* by the fetch wrapper only, and the device flow runs only for
\* createCopilotWithDeviceFlow without a credential.
NextProvider ==
    \/ \E c \in Callers : ProviderFetch_Call(c)
    \/ \E c \in Callers : \E resp \in ExchangeResponses : ExchangeRespond(c, resp)
    \/ \E c \in Callers : GetValidToken_Resume(c)
    \/ \E c \in Callers : \E init \in ApiInits : ProviderFetch_Resume(c, init)
    \/ \E f \in Flows : wrapper = "createProviderAfterAuth" /\ InitiateDeviceFlow_Call(f)
    \/ \E f \in Flows : \E resp \in DeviceCodeResponses : DeviceCodeRespond(f, resp)
    \/ \E f \in Flows : InitiateDeviceFlow_Resume(f)
    \/ \E f \in Flows : PollForToken_Call(f)
    \/ \E f \in Flows : \E resp \in AccessTokenResponses : AccessTokenRespond(f, resp)
    \/ \E f \in Flows : \E writeOk \in BOOLEAN : PollDeviceFlow_Resume(f, writeOk)
    \/ \E f \in Flows : PollDeviceFlow_Wake(f)

SpecProvider == InitProvider /\ [][NextProvider]_vars


(***************************************************************************)
(* Vocabulary of the properties                                            *)
(***************************************************************************)
FiveMinutesMs == 5 * 60 * 1000

CachePresent == cachedToken # <<>>
\* The cache entry is outside the refresh buffer: now + 5 minutes < expiresAt.
CacheFresh == CachePresent /\ now + FiveMinutesMs < cachedToken[1].expiresAt
CredentialPresent == oauthToken # Null

\* Caller c makes a getValidToken() call in this step.
CallStep(c) ==
    /\ gpc[c] \in {"idle", "returned", "threw"}
    /\ gpc'[c] # gpc[c] \/ gout'[c] # gout[c]

\* No token-exchange request is issued in this step.
NoExchangeIssued == \A d \in Callers : gpc'[d] = "fetch" => gpc[d] = "fetch"

\* Caller c handles the exchange response it holds in this step.
ExchangeHandled(c) == gpc[c] = "response" /\ gpc'[c] # "response"

\* chunk sequence s occurs in chunk sequence m.
Contains(m, s) ==
    \E i \in 0 .. Len(m) - Len(s) : SubSeq(m, i + 1, i + Len(s)) = s

(***************************************************************************)
(* Properties of getValidToken (checked under SpecToken)                   *)
(***************************************************************************)
\* C1: a getValidToken() call made while the cache is present and outside the
\* refresh buffer returns cache.token in that same step, issues no exchange
\* request and leaves the cache and the credential as they were.
C1_CacheHit ==
    [][\A c \in Callers :
        (CallStep(c) /\ CacheFresh) =>
            /\ gpc'[c] = "returned"
            /\ gout'[c].kind = "return"
            /\ gout'[c].value = cachedToken[1].token
            /\ NoExchangeIssued
            /\ cachedToken' = cachedToken
            /\ oauthToken' = oauthToken]_vars

\* A caller has been served the cached token while the entry is outside the buffer.
C1_Witness ==
    \E c \in Callers :
        /\ gpc[c] = "returned" /\ gout[c].line = 98
        /\ CacheFresh /\ gout[c].value = cachedToken[1].token

\* C2: a call made with a credential and a cache entry whose expiresAt is at
\* most now + 5 minutes issues an exchange request carrying the credential
\* instead of returning; a call returns at once (serves the cache) only while
\* now + 5 minutes < expiresAt.
C2_RefreshBuffer ==
    [][\A c \in Callers :
        /\ (CallStep(c) /\ CachePresent /\ ~CacheFresh /\ CredentialPresent) =>
               (gpc'[c] = "fetch" /\ greq'[c] = oauthToken)
        /\ (CallStep(c) /\ gpc'[c] = "returned") => CacheFresh]_vars

\* The only caller that ever called is fetching again while the entry it
\* cached expires exactly at now + 5 minutes (the clock has not moved).
C2_Witness ==
    \E c \in Callers :
        /\ gpc[c] = "fetch"
        /\ \A d \in Callers \ {c} : gpc[d] = "idle"
        /\ now = 0
        /\ CachePresent /\ cachedToken[1].expiresAt = now + FiveMinutesMs

\* C3: handling a success response {token: t, expires_at: s} sets the cache to
\* exactly {token: t, expiresAt: s * 1000} and returns t.
C3_ExchangeSuccess ==
    [][\A c \in Callers :
        (ExchangeHandled(c) /\ gresp[c].status = 200) =>
            /\ cachedToken' = <<[token |-> gresp[c].data.token,
                                 expiresAt |-> gresp[c].data.expires_at * 1000]>>
            /\ gpc'[c] = "returned"
            /\ gout'[c].kind = "return"
            /\ gout'[c].value = gresp[c].data.token]_vars

\* A call returned the token of an exchange whose expires_at was the largest
\* number of seconds, now cached in milliseconds.
C3_Witness ==
    \E c \in Callers :
        /\ gpc[c] = "returned" /\ gout[c].line = 134
        /\ CachePresent
        /\ cachedToken[1].token = gout[c].value
        /\ cachedToken[1].expiresAt = MaxExpiryTicks * TickSecs * 1000

\* C4: a call made with no credential while the cache is absent or inside the
\* refresh buffer throws the "no OAuth token available" error, which names
\* initiateDeviceFlow() and the oauthToken option, issues no request and
\* leaves the cache and the credential as they were.
C4_NoCredential ==
    [][\A c \in Callers :
        (CallStep(c) /\ ~CacheFresh /\ ~CredentialPresent) =>
            /\ gpc'[c] = "threw"
            /\ gout'[c].kind = "throw"
            /\ gout'[c].message =
                 <<"No OAuth token available. Run initiateDeviceFlow() first or provide an oauthToken in options.">>
            /\ NoExchangeIssued
            /\ cachedToken' = cachedToken
            /\ oauthToken' = oauthToken]_vars

\* A call has thrown for want of a credential.
C4_Witness ==
    \E c \in Callers :
        gpc[c] = "threw" /\ gout[c].line = 103 /\ ~CredentialPresent /\ ~CachePresent

\* C5: handling a non-success response throws an error whose message holds
\* the status code and the raw body, and leaves the cache (a stale entry
\* included) and the credential as they were.
C5_ExchangeFailure ==
    [][\A c \in Callers :
        (ExchangeHandled(c) /\ gresp[c].status \notin 200 .. 299) =>
            /\ gpc'[c] = "threw"
            /\ gout'[c].kind = "throw"
            /\ Contains(gout'[c].message, <<ToString(gresp[c].status)>>)
            /\ Contains(gout'[c].message, gresp[c].text)
            /\ cachedToken' = cachedToken
            /\ oauthToken' = oauthToken]_vars

\* A refresh triggered by a stale entry failed, and the entry is still cached.
C5_Witness ==
    \E c \in Callers :
        /\ gpc[c] = "threw" /\ gout[c].line = 122
        /\ \A d \in Callers \ {c} : gpc[d] = "idle"
        /\ CachePresent /\ ~CacheFresh


(***************************************************************************)
(* Properties of credential resolution (checked under SpecStore)           *)
(***************************************************************************)
\* What a document holds, read off the document itself.
Range(seq) == {seq[i] : i \in 1 .. Len(seq)}
DocEntries(file) ==
    IF file.st = "ok" /\ file.json.t = "object" THEN Range(file.json.v) ELSE {}
\* The string oauth_token fields of a value.
NestedTokens(value) ==
    IF value.t = "object"
    THEN {e[2] : e \in {x \in Range(value.v) : x[1] = <<"oauth_token">> /\ x[2].t = "string"}}
    ELSE {}
KeyIsHost(key, host) == key = host
KeyIsHostColon(key, host) ==
    Len(key) > Len(host) /\ SubSeq(key, 1, Len(host) + 1) = host \o <<":">>
OAuthClass(tok) == tok.t = "string" /\ Len(tok.v) > 0 /\ tok.v[1] = "gho_"
UserDelegated(tok) == tok.t = "string" /\ Len(tok.v) > 0 /\ tok.v[1] = "ghu_"
NonEmpty(tok) == tok.t = "string" /\ tok.v # <<>>

\* The tokens apps.json holds for the host.
PrimaryTokens(host) ==
    UNION {NestedTokens(e[2]) :
             e \in {x \in DocEntries(appsFile) :
                      KeyIsHost(x[1], host) \/ KeyIsHostColon(x[1], host)}}
\* The tokens hosts.json holds for the host, nested or flattened.
SecondaryTokens(host) ==
    UNION {NestedTokens(e[2]) : e \in {x \in DocEntries(hostsFile) : KeyIsHost(x[1], host)}}
    \cup {e[2] : e \in {x \in DocEntries(hostsFile) :
                          /\ KeyIsHostColon(x[1], host)
                          /\ (OAuthClass(x[2]) \/ UserDelegated(x[2]))}}
\* What the local document holds under oauth_token, whatever its type.
LocalValues ==
    IF localFile.st = "ok" /\ localFile.json.t = "object"
    THEN {e[2] : e \in {x \in Range(localFile.json.v) : x[1] = <<"oauth_token">>}}
    ELSE {}

Credentials(tokens) == {t \in tokens : NonEmpty(t)}
ExplicitSupplied == NonEmpty(options.oauthToken)
\* The host the manager resolves for.
ResolvedHost ==
    IF options.enterpriseUrl = Undefined THEN <<"github", ".com">>
    ELSE <<"github", ".com", ".au">>

\* C6 (as claimed): after construction the credential is the explicit one if
\* supplied; otherwise a credential of the first of apps.json, hosts.json and
\* the local document that holds one for the host; otherwise absent.  A lower
\* source is never chosen while a higher one holds a credential for the host.
C6_Precedence ==
    constructed =>
        IF ExplicitSupplied THEN oauthToken = options.oauthToken
        ELSE IF Credentials(PrimaryTokens(ResolvedHost)) # {}
        THEN oauthToken \in Credentials(PrimaryTokens(ResolvedHost))
        ELSE IF Credentials(SecondaryTokens(ResolvedHost)) # {}
        THEN oauthToken \in Credentials(SecondaryTokens(ResolvedHost))
        ELSE IF LocalValues \ {Str(<<>>)} # {}
        THEN oauthToken \in LocalValues
        ELSE oauthToken = Null

PrimaryHasBoth ==
    /\ \E t \in PrimaryTokens(ResolvedHost) : OAuthClass(t)
    /\ \E t \in PrimaryTokens(ResolvedHost) : UserDelegated(t)
SecondaryHasBoth ==
    /\ \E t \in SecondaryTokens(ResolvedHost) : OAuthClass(t)
    /\ \E t \in SecondaryTokens(ResolvedHost) : UserDelegated(t)

\* C7 (as claimed): whenever the document that decides the resolution holds
\* both an OAuth-class (gho_) and a user-delegated (ghu_) token for the host,
\* the resolved credential is OAuth-class.
C7_PreferOAuthAnyDocument ==
    (/\ constructed /\ ~ExplicitSupplied
     /\ \/ PrimaryHasBoth
        \/ (PrimaryTokens(ResolvedHost) = {} /\ SecondaryHasBoth))
    => OAuthClass(oauthToken)

\* C7 (amended): whenever apps.json holds both an OAuth-class and a
\* user-delegated token for the host, the resolved credential is an
\* OAuth-class token of apps.json.
C7_PreferOAuthPrimary ==
    (constructed /\ ~ExplicitSupplied /\ PrimaryHasBoth)
    => (OAuthClass(oauthToken) /\ oauthToken \in PrimaryTokens(ResolvedHost))

\* Resolution ran on an apps.json whose first entry is a user-delegated token
\* of the host and whose second is an OAuth-class one.
C7_Witness ==
    /\ constructed /\ ~ExplicitSupplied /\ PrimaryHasBoth
    /\ appsFile.json.v[1][1] = ResolvedHost
    /\ \E t \in NestedTokens(appsFile.json.v[1][2]) : UserDelegated(t)
    /\ OAuthClass(oauthToken)

\* A document that is missing, unreadable, malformed or not a JSON object.
NoDocument(file) == file.st # "ok" \/ file.json.t # "object"

\* C8 (as claimed): when each of the three documents is missing, unreadable,
\* malformed or of an unexpected shape (the local one: not an object with a
\* string oauth_token), resolution yields absent.
C8_TolerantResolution ==
    (/\ constructed /\ ~ExplicitSupplied
     /\ NoDocument(appsFile) /\ NoDocument(hostsFile)
     /\ (NoDocument(localFile) \/ NestedTokens(localFile.json) = {}))
    => oauthToken = Null


(***************************************************************************)
(* Properties of the device flow (checked under SpecFlow)                  *)
(***************************************************************************)
\* Flow f handles the access-token response it holds in this step.
PollHandled(f) == fpc[f] = "pollResponse" /\ fpc'[f] # "pollResponse"
SuccessStatus(resp) == resp.status >= 200 /\ resp.status <= 299
\* The response body carries an access token (a non-empty string).
HasAccessToken(resp) ==
    resp.data.access_token.t = "string" /\ resp.data.access_token.v # <<>>
\* The response body carries an error code (a non-empty string).
HasErrorCode(resp) == resp.data.error.t = "string" /\ resp.data.error.v # <<>>
IsPending(resp) == resp.data.error = Str(<<"authorization_pending">>)
Polling(f) == fpc[f] \in {"poll", "pollResponse", "sleep225", "sleep235"}

\* C9: while a poll call is answered "authorization_pending" it persists
\* nothing, leaves the credential alone and goes on to another request; the
\* success-status answer carrying access_token = T that follows makes it
\* return true with the credential equal to T and persist invoked exactly
\* once, with T.
C9_DeviceFlowSuccess ==
    /\ [][\A f \in Flows :
            (PollHandled(f) /\ SuccessStatus(fresp[f]) /\ HasAccessToken(fresp[f])) =>
                /\ PollReturned(fpc'[f]) /\ PollResult(fpc'[f])
                /\ oauthToken' = fresp[f].data.access_token
                /\ fsaved'[f] = <<fresp[f].data.access_token>>]_vars
    /\ [][\A f \in Flows :
            (/\ PollHandled(f) /\ SuccessStatus(fresp[f])
             /\ ~HasAccessToken(fresp[f]) /\ IsPending(fresp[f])) =>
                /\ fpc'[f] = "sleep225"
                /\ fsaved'[f] = <<>>
                /\ oauthToken' = oauthToken]_vars
    /\ [][\A f \in Flows :
            (fpc[f] = "sleep225" /\ fpc'[f] # fpc[f]) =>
                (fpc'[f] = "poll" /\ fpolls'[f] = fpolls[f] + 1)]_vars
    /\ [](\A f \in Flows : Polling(f) => fsaved[f] = <<>>)

\* A poll call answered by pending responses only, then by a token, has
\* returned true; the credential is the token, persisted once.
C9_Witness ==
    \E f \in Flows :
        /\ PollReturned(fpc[f]) /\ PollResult(fpc[f])
        /\ fpending[f] >= 2 /\ fpolls[f] = fpending[f] + 1
        /\ oauthToken = Str(<<"gho_", "df">>)
        /\ fsaved[f] = <<oauthToken>>
        /\ Get(localFile.json, OAUTH_TOKEN) = oauthToken

\* C10: a response with no access token and an error code other than
\* "authorization_pending" makes the poll call return false; persist is not
\* invoked, the credential and the local document stay as they were, and the
\* call issues no further request.
C10_DeviceFlowDenied ==
    /\ [][\A f \in Flows :
            (/\ PollHandled(f) /\ ~HasAccessToken(fresp[f])
             /\ HasErrorCode(fresp[f]) /\ ~IsPending(fresp[f])) =>
                /\ PollReturned(fpc'[f]) /\ ~PollResult(fpc'[f])
                /\ fsaved'[f] = <<>>
                /\ oauthToken' = oauthToken
                /\ localFile' = localFile
                /\ fpolls'[f] = fpolls[f]]_vars
    /\ [][\A f \in Flows :
            (PollReturned(fpc[f]) /\ ~PollResult(fpc[f])) =>
                (fpc'[f] = fpc[f] /\ fpolls'[f] = fpolls[f] /\ fsaved'[f] = fsaved[f])]_vars

\* A poll call was denied after a pending answer and returned false, with
\* nothing persisted.
C10_Witness ==
    \E f \in Flows :
        /\ fpc[f] = "returned231"
        /\ fpending[f] = 1 /\ fpolls[f] = 2
        /\ fsaved[f] = <<>>
        /\ localFile = MissingFile

\* Flow f handles the device-code response it holds in this step.
InitHandled(f) == fpc[f] = "deviceCodeResponse" /\ fpc'[f] # "deviceCodeResponse"
\* The flow's request in flight is addressed to the access-token endpoint.
AccessTokenRequested(f) ==
    freq[f] # NoRequest /\ freq[f].url = <<"https://">> \o domain \o <<"/login/oauth/access_token">>
\* initiateDeviceFlow() handed its caller a polling callable.
CallableHandedOut(f) ==
    fout[f].kind = "return" /\ "pollForToken" \in DOMAIN fout[f].value

\* C11: handling a non-success answer of the device-code endpoint makes
\* initiateDeviceFlow() throw, with the credential and the cache as they
\* were; an invocation that threw has handed out no polling callable and
\* never issues an access-token request.
C11_InitiationFailure ==
    /\ [][\A f \in Flows :
            (InitHandled(f) /\ ~SuccessStatus(fresp[f])) =>
                /\ fout'[f].kind = "throw"
                /\ Contains(fout'[f].message, <<ToString(fresp[f].status)>>)
                /\ oauthToken' = oauthToken
                /\ cachedToken' = cachedToken]_vars
    /\ [][\A f \in Flows :
            fout[f].kind = "throw" => (fout'[f] = fout[f] /\ fpc'[f] = fpc[f])]_vars
    /\ [](\A f \in Flows :
            fout[f].kind = "throw" =>
                /\ ~CallableHandedOut(f)
                /\ fpolls[f] = 0
                /\ ~AccessTokenRequested(f))

\* An initiateDeviceFlow() call has thrown on a 403 answer.
C11_Witness ==
    \E f \in Flows :
        /\ fpc[f] = "initThrew"
        /\ fout[f].kind = "throw"
        /\ Contains(fout[f].message, <<"403">>)
        /\ fpolls[f] = 0 /\ freq[f] = NoRequest

\* C12: handling a success answer of the device-code endpoint hands the
\* caller the answer's verification URI and user code and a polling callable,
\* and issues no request; no access-token request exists before the caller
\* invokes the callable, and the first one is issued by that invocation.
C12_DeferredPolling ==
    /\ [][\A f \in Flows :
            (InitHandled(f) /\ SuccessStatus(fresp[f])) =>
                /\ fout'[f].kind = "return"
                /\ fout'[f].value.verificationUri = fresp[f].data.verification_uri
                /\ fout'[f].value.userCode = fresp[f].data.user_code
                /\ "pollForToken" \in DOMAIN fout'[f].value
                /\ fpc'[f] = "ready"
                /\ freq'[f] = NoRequest]_vars
    /\ [](\A f \in Flows :
            fpc[f] \in {"idle", "deviceCode", "deviceCodeResponse", "ready"} =>
                (fpolls[f] = 0 /\ ~AccessTokenRequested(f)))
    /\ [][\A f \in Flows :
            (fpolls[f] = 0 /\ fpolls'[f] # 0) =>
                /\ fpc[f] = "ready" /\ CallableHandedOut(f)
                /\ fpc'[f] = "poll" /\ fpolls'[f] = 1
                /\ freq'[f] # NoRequest]_vars

\* The caller holds the verification URI, the user code and the callable and
\* has not invoked it: nothing has been sent to the access-token endpoint.
C12_Witness ==
    \E f \in Flows :
        /\ fpc[f] = "ready"
        /\ CallableHandedOut(f)
        /\ fout[f].value.verificationUri = <<"https://github.com/login/device">>
        /\ fout[f].value.userCode = <<"WDJB-MJHT">>
        /\ fpolls[f] = 0 /\ freq[f] = NoRequest

(***************************************************************************)
(* Overlapping getValidToken calls (checked under SpecToken)               *)
(***************************************************************************)
\* The callers whose token-exchange request is in flight.
InFlight == {c \in Callers : gfetch[c] # NoRequest}

\* C13: a getValidToken() call made with a credential while the cache is
\* absent or inside the refresh buffer issues a request of its own, bearing
\* the credential, whatever requests of other callers are in flight, and
\* these stay in flight; so every call that awaits an answer has its own
\* request, and k overlapping calls have k requests in flight.
C13_NoSingleFlight ==
    /\ [][\A c \in Callers :
            (CallStep(c) /\ ~CacheFresh /\ CredentialPresent) =>
                /\ gfetch[c] = NoRequest
                /\ gfetch'[c] # NoRequest
                /\ gfetch'[c].headers["Authorization"] = <<"Bearer ">> \o oauthToken.v
                /\ \A d \in Callers \ {c} : gfetch'[d] = gfetch[d]
                /\ Cardinality(InFlight') = Cardinality(InFlight) + 1]_vars
    /\ [](\A c \in Callers : gpc[c] = "fetch" <=> c \in InFlight)

\* Every caller called while the cache was absent, none has been answered:
\* as many exchange requests are in flight as there are callers.
C13_Witness ==
    /\ \A c \in Callers : gpc[c] = "fetch"
    /\ ~CachePresent
    /\ Cardinality(InFlight) = NumCallers

(***************************************************************************)
(* getValidToken calls interleaved with device flows (checked under Spec)  *)
(***************************************************************************)
\* C14: in every reachable state the cache is absent, or it is the pair
\* {token, expires_at * 1000} of the success response whose getValidToken()
\* call completed last: both fields come from that one response.
C14_WholesaleCache ==
    \/ cachedToken = <<>>
    \/ /\ exchanged # <<>>
       /\ cachedToken = <<[token |-> exchanged[1].token,
                           expiresAt |-> exchanged[1].expires_at * 1000]>>

\* Two overlapping calls completed exchanges that differ in token and in
\* expiry, and a device-flow poll returned true; the cache holds the pair of
\* the exchange completed last.
C14_Witness ==
    /\ \E c, d \in Callers :
        /\ gout[c].kind = "return" /\ gout[c].line = 134
        /\ gout[d].kind = "return" /\ gout[d].line = 134
        /\ gout[c].value # gout[d].value
        /\ cachedToken # <<>> /\ cachedToken[1].token = gout[d].value
        /\ cachedToken[1].expiresAt = (MaxExpiryTicks - 1) * TickSecs * 1000
    /\ \E f \in Flows : fpc[f] = "returned220"

\* A poll that failed (non-success status) or was denied (no access token,
\* an error code other than "authorization_pending").
PollFailedOrDenied(resp) ==
    \/ ~SuccessStatus(resp)
    \/ (~HasAccessToken(resp) /\ HasErrorCode(resp) /\ ~IsPending(resp))

\* C15: while no poll has received an access token the credential is the one
\* resolved at construction; a step changes it only by handling a poll
\* response that carries an access token, to that token.  No step of a
\* getValidToken() call, no step of an initiateDeviceFlow() call and no
\* failed or denied poll changes it.
C15_CredentialFrame ==
    /\ []((\A f \in Flows : fsaved[f] = <<>>) =>
            oauthToken = ConstructorToken(options, appsFile, hostsFile, localFile))
    /\ [][oauthToken' # oauthToken =>
            \E f \in Flows :
                /\ PollHandled(f) /\ HasAccessToken(fresp[f])
                /\ oauthToken' = fresp[f].data.access_token]_vars
    /\ [][(\E c \in Callers : gpc'[c] # gpc[c] \/ gout'[c] # gout[c]) =>
            oauthToken' = oauthToken]_vars
    /\ [][(\E f \in Flows :
             fpc[f] \in {"idle", "deviceCode", "deviceCodeResponse"} /\ fpc'[f] # fpc[f]) =>
            oauthToken' = oauthToken]_vars
    /\ [][(\E f \in Flows : PollHandled(f) /\ PollFailedOrDenied(fresp[f])) =>
            oauthToken' = oauthToken]_vars

\* A getValidToken() call threw on a failed exchange and a poll was denied
\* after a pending answer: the credential is still the constructor's.
C15_Witness ==
    /\ \E c \in Callers : gpc[c] = "threw" /\ gout[c].line = 122
    /\ \E f \in Flows : fpc[f] = "returned231" /\ fpending[f] >= 1
    /\ oauthToken = options.oauthToken
    /\ oauthToken = Str(<<"gho_", "opt">>)

(***************************************************************************)
(* Persistence of the device-flow credential (checked under SpecFlow)      *)
(***************************************************************************)
\* C16: when the write of the local document fails while a poll handles a
\* success answer carrying an access token, the call does not throw: it
\* returns true, the credential is the new token, and the document is as it
\* was.
C16_BestEffortPersistence ==
    [][\A f \in Flows :
        (/\ PollHandled(f) /\ SuccessStatus(fresp[f]) /\ HasAccessToken(fresp[f])
         /\ fwrite'[f] = "failed") =>
            /\ fpc'[f] # "threw217"
            /\ PollReturned(fpc'[f]) /\ PollResult(fpc'[f])
            /\ oauthToken' = fresp[f].data.access_token
            /\ fsaved'[f] = <<fresp[f].data.access_token>>
            /\ localFile' = localFile]_vars

\* The write failed, the poll call returned true, the credential is the
\* device-flow token and no local document exists.
C16_Witness ==
    \E f \in Flows :
        /\ fwrite[f] = "failed"
        /\ fpc[f] = "returned220"
        /\ oauthToken = Str(<<"gho_", "df">>)
        /\ localFile = MissingFile

(***************************************************************************)
(* Extraction from hosts.json (checked under SpecStore)                    *)
(***************************************************************************)
\* hosts.json parsed to a JSON object.
HostsIsObject == hostsFile.st = "ok" /\ hostsFile.json.t = "object"
\* What extraction from hosts.json yields for the resolved host.
HostsResult == extractTokenFromHosts(hostsFile.json, ResolvedHost)
\* The string tokens nested under the direct host key.
NestedDirect(host) ==
    UNION {NestedTokens(e[2]) : e \in {x \in DocEntries(hostsFile) : KeyIsHost(x[1], host)}}
\* Entry i of hosts.json is a flattened "host:user" key mapped to a string.
FlattenedString(i, host) ==
    /\ KeyIsHostColon(hostsFile.json.v[i][1], host)
    /\ hostsFile.json.v[i][2].t = "string"
\* ... to a string that begins with gho_ or ghu_.
FlattenedToken(i, host) ==
    /\ FlattenedString(i, host)
    /\ (OAuthClass(hostsFile.json.v[i][2]) \/ UserDelegated(hostsFile.json.v[i][2]))

\* C17 (as claimed): extraction from hosts.json yields the token nested under
\* the direct host key if there is one; otherwise, if flattened "host:user"
\* keys are mapped to strings, one of these strings, whatever the string.
C17_SecondaryForms ==
    (constructed /\ HostsIsObject) =>
        IF NestedDirect(ResolvedHost) # {}
        THEN HostsResult \in NestedDirect(ResolvedHost)
        ELSE (\E i \in 1 .. Len(hostsFile.json.v) : FlattenedString(i, ResolvedHost)) =>
                \E i \in 1 .. Len(hostsFile.json.v) :
                    FlattenedString(i, ResolvedHost) /\ HostsResult = hostsFile.json.v[i][2]

\* C17 (amended): extraction from hosts.json yields the token nested under
\* the direct host key if there is one; otherwise the string of the first
\* flattened "host:user" key, in document order, whose string begins with
\* gho_ or ghu_; otherwise nothing.
C17_SecondaryFormsPrefixed ==
    (constructed /\ HostsIsObject) =>
        IF NestedDirect(ResolvedHost) # {}
        THEN HostsResult \in NestedDirect(ResolvedHost)
        ELSE IF \E i \in 1 .. Len(hostsFile.json.v) : FlattenedToken(i, ResolvedHost)
        THEN \E i \in 1 .. Len(hostsFile.json.v) :
                /\ FlattenedToken(i, ResolvedHost)
                /\ \A j \in 1 .. (i - 1) : ~FlattenedToken(j, ResolvedHost)
                /\ HostsResult = hostsFile.json.v[i][2]
        ELSE HostsResult = Null

\* Resolution fell through to a hosts.json whose first entry is a flattened
\* key mapped to a string without the prefixes and whose second is a
\* flattened ghu_ token: the credential is the second.
C17_Witness ==
    /\ constructed /\ ~ExplicitSupplied /\ NoDocument(appsFile) /\ HostsIsObject
    /\ Len(hostsFile.json.v) = 2
    /\ FlattenedString(1, ResolvedHost) /\ ~FlattenedToken(1, ResolvedHost)
    /\ FlattenedToken(2, ResolvedHost)
    /\ oauthToken = hostsFile.json.v[2][2]
    /\ oauthToken = HostsResult

(***************************************************************************)
(* The outbound requests of the AuthManager                                *)
(***************************************************************************)
\* The request carries every client-identification header (user agent,
\* editor, editor plugin, integration) with its fixed value.
CarriesClientIdentification(req) ==
    \A n \in {"User-Agent", "Editor-Version", "Editor-Plugin-Version",
              "Copilot-Integration-Id"} :
        n \in DOMAIN req.headers /\ req.headers[n] = COPILOT_HEADERS[n]

\* C18 (as claimed): every request in flight to the device-code, access-token
\* and token-exchange endpoints carries the fixed client-identification
\* header set.
C18_ClientIdentification ==
    /\ \A c \in Callers : gfetch[c] # NoRequest => CarriesClientIdentification(gfetch[c])
    /\ \A f \in Flows : freq[f] # NoRequest => CarriesClientIdentification(freq[f])

\* C20 (as claimed): every step that issues an access-token request, the
\* first of a poll call included, is the end of an inter-poll sleep.
C20_SleepBeforePost ==
    [][\A f \in Flows :
        (fpolls'[f] = fpolls[f] + 1 /\ freq'[f] # NoRequest) =>
            fpc[f] \in {"sleep225", "sleep235"}]_vars

(***************************************************************************)
(* The API requests of the provider handles (checked under SpecProvider)   *)
(***************************************************************************)
\* C19 (as claimed): every API request a handle's fetch sent, whichever
\* factory made the handle, carries Authorization: Bearer <the token its
\* getValidToken() call returned>, Openai-Intent: conversation-edits and an
\* X-Initiator header.
C19_ApiRequestHeaders ==
    \A c \in Callers :
        asent[c] # <<>> =>
            /\ gout[c].kind = "return"
            /\ "Authorization" \in DOMAIN asent[c][1]
            /\ asent[c][1]["Authorization"] = <<"Bearer ">> \o gout[c].value.v
            /\ "Openai-Intent" \in DOMAIN asent[c][1]
            /\ asent[c][1]["Openai-Intent"] = <<"conversation-edits">>
            /\ "X-Initiator" \in DOMAIN asent[c][1]

(***************************************************************************)
(* The polling loop (checked under SpecFlow and SpecFlowLive)              *)
(***************************************************************************)
\* C21: handling an access-token answer with a non-success status, whatever
\* its body, makes the poll call return false in that step: nothing is
\* persisted, the credential and the local document stay as they were, and
\* the call issues no request then or later.
C21_PollHttpError ==
    /\ [][\A f \in Flows :
            (PollHandled(f) /\ ~SuccessStatus(fresp[f])) =>
                /\ fpc'[f] = "returned208"
                /\ PollReturned(fpc'[f]) /\ ~PollResult(fpc'[f])
                /\ fsaved'[f] = fsaved[f] /\ fwrite'[f] = fwrite[f]
                /\ oauthToken' = oauthToken
                /\ localFile' = localFile
                /\ fpolls'[f] = fpolls[f]
                /\ freq'[f] = NoRequest]_vars
    /\ [][\A f \in Flows :
            fpc[f] = "returned208" =>
                (fpc'[f] = fpc[f] /\ fpolls'[f] = fpolls[f] /\ freq'[f] = NoRequest)]_vars

\* A poll call returned false on the HTTP error that answered its second
\* request; nothing was persisted and there is no credential.
C21_Witness ==
    \E f \in Flows :
        /\ fpc[f] = "returned208"
        /\ fpolls[f] = 2
        /\ fsaved[f] = <<>> /\ fwrite[f] = "none"
        /\ oauthToken = Null
        /\ localFile = MissingFile

\* The step of flow f out of the timer it awaits.
WakeStep(f) == fpc[f] \in {"sleep225", "sleep235"} /\ fpc'[f] # fpc[f]
\* After handling a non-terminal answer the call awaits its timer, with the
\* credential, the cache and the local document as they were and nothing
\* persisted; the step out of the timer posts the next access-token request.
StaysPolling(f) ==
    /\ fpc'[f] \in {"sleep225", "sleep235"}
    /\ oauthToken' = oauthToken
    /\ cachedToken' = cachedToken
    /\ localFile' = localFile
    /\ fsaved'[f] = fsaved[f] /\ fwrite'[f] = fwrite[f]
NextRequestPosted(f) ==
    /\ fpc'[f] = "poll"
    /\ fpolls'[f] = fpolls[f] + 1
    /\ freq'[f] = AccessTokenRequest(getUrls(domain).accessTokenUrl,
                                     fout[f].value.pollForToken.deviceCode)
    /\ oauthToken' = oauthToken
    /\ cachedToken' = cachedToken
    /\ localFile' = localFile

\* C22 as stated: a success-status answer whose error code is
\* "authorization_pending", or that carries neither an access token nor an
\* error code, keeps the call polling: it awaits the timer and then posts
\* another access-token request, with credential, cache and local document
\* unchanged.
C22_NonTerminal ==
    /\ [][\A f \in Flows :
            (/\ PollHandled(f) /\ SuccessStatus(fresp[f])
             /\ \/ IsPending(fresp[f])
                \/ ~HasAccessToken(fresp[f]) /\ ~HasErrorCode(fresp[f])) =>
                StaysPolling(f)]_vars
    /\ [][\A f \in Flows : WakeStep(f) => NextRequestPosted(f)]_vars

\* C22 amended: the same for a success-status answer that carries no access
\* token and whose error code is "authorization_pending" or missing.
C22_NonTerminalNoToken ==
    /\ [][\A f \in Flows :
            (/\ PollHandled(f) /\ SuccessStatus(fresp[f])
             /\ ~HasAccessToken(fresp[f])
             /\ (IsPending(fresp[f]) \/ ~HasErrorCode(fresp[f]))) =>
                StaysPolling(f)]_vars
    /\ [][\A f \in Flows : WakeStep(f) => NextRequestPosted(f)]_vars

\* After one pending answer and one answer with neither token nor error code
\* the call has its third access-token request in flight; no credential, no
\* cache, no local document.
C22_Witness ==
    \E f \in Flows :
        /\ fpc[f] = "poll"
        /\ fpolls[f] = 3 /\ fpending[f] = 1
        /\ AccessTokenRequested(f)
        /\ oauthToken = Null
        /\ cachedToken = <<>>
        /\ localFile = MissingFile
        /\ fsaved[f] = <<>>

\* A terminal answer: a non-success status, an access token, or an error
\* code other than "authorization_pending".
Terminal(resp) ==
    \/ ~SuccessStatus(resp)
    \/ HasAccessToken(resp)
    \/ HasErrorCode(resp) /\ ~IsPending(resp)
Authorized(f) == fpc[f] = "returned220"
Denied(f) == fpc[f] = "returned231"
Error(f) == fpc[f] = "returned208"

\* C23: the poll call returns in the step that handles a terminal answer and
\* in no other step, whatever the number of requests it has posted; the
\* outcome is Error for a non-success status, else Authorized for an access
\* token, else Denied; a call that returned keeps its outcome and posts no
\* request; and a terminal answer that has arrived leads to the return.
C23_PollTermination ==
    /\ [][\A f \in Flows :
            PollHandled(f) => (PollReturned(fpc'[f]) <=> Terminal(fresp[f]))]_vars
    /\ [][\A f \in Flows :
            (~PollReturned(fpc[f]) /\ PollReturned(fpc'[f])) => PollHandled(f)]_vars
    /\ [][\A f \in Flows :
            (PollHandled(f) /\ Terminal(fresp[f])) =>
                /\ Error(f)' <=> ~SuccessStatus(fresp[f])
                /\ Authorized(f)' <=> (SuccessStatus(fresp[f]) /\ HasAccessToken(fresp[f]))
                /\ Denied(f)' <=> (SuccessStatus(fresp[f]) /\ ~HasAccessToken(fresp[f]))]_vars
    /\ [][\A f \in Flows :
            PollReturned(fpc[f]) =>
                (fpc'[f] = fpc[f] /\ fpolls'[f] = fpolls[f] /\ freq'[f] = NoRequest)]_vars
    /\ [](\A f \in Flows : PollReturned(fpc[f]) => freq[f] = NoRequest)
    /\ \A f \in Flows :
            (fpc[f] = "pollResponse" /\ Terminal(fresp[f])) ~> PollReturned(fpc[f])

\* A call whose first two answers were non-terminal, one pending and one with
\* neither token nor error code, returned on its third, which carried a token.
C23_Witness ==
    \E f \in Flows :
        /\ Authorized(f)
        /\ fpolls[f] = MaxPolls /\ fpending[f] = 1
        /\ freq[f] = NoRequest
        /\ fsaved[f] = <<oauthToken>>

(***************************************************************************)
(* Extraction from apps.json (checked under SpecStore)                     *)
(***************************************************************************)
AppsIsObject == appsFile.st = "ok" /\ appsFile.json.t = "object"
AppsResult == extractTokenFromApps(appsFile.json, ResolvedHost)
\* Entry i of apps.json is keyed by the host, or by the host and a colon, and
\* carries a string oauth_token.
AppsMatching(i) ==
    LET e == appsFile.json.v[i]
    IN /\ (KeyIsHost(e[1], ResolvedHost) \/ KeyIsHostColon(e[1], ResolvedHost))
       /\ NestedTokens(e[2]) # {}
AppsTokenAt(i) == CHOOSE t \in NestedTokens(appsFile.json.v[i][2]) : TRUE
AppsMatches == {i \in 1 .. Len(appsFile.json.v) : AppsMatching(i)}
AppsOAuthMatches == {i \in AppsMatches : OAuthClass(AppsTokenAt(i))}
First(S) == CHOOSE i \in S : \A j \in S : i <= j
\* apps.json without the entries of other hosts.
AppsOfHostOnly ==
    Obj(SelectSeq(appsFile.json.v,
                  LAMBDA e : KeyIsHost(e[1], ResolvedHost)
                             \/ KeyIsHostColon(e[1], ResolvedHost)))

\* C24: extraction from apps.json yields the first OAuth-class token, in
\* document order, among the entries keyed "<host>" or "<host>:..." that carry
\* a string oauth_token; with no OAuth-class one, the first such token; with
\* no such entry, nothing.  The document without the entries of other hosts
\* yields the same, and a resolution that had no explicit credential took the
\* extracted token when it is not empty.
C24_PrimaryExtraction ==
    (constructed /\ AppsIsObject) =>
        /\ AppsResult =
             IF AppsOAuthMatches # {} THEN AppsTokenAt(First(AppsOAuthMatches))
             ELSE IF AppsMatches # {} THEN AppsTokenAt(First(AppsMatches))
             ELSE Null
        /\ AppsResult = extractTokenFromApps(AppsOfHostOnly, ResolvedHost)
        /\ (~ExplicitSupplied /\ NonEmpty(AppsResult)) => oauthToken = AppsResult

\* Resolution for github.com ran on an apps.json whose first entry is an
\* OAuth-class token of another host and whose second is a user-delegated
\* token of github.com, and took the second.
C24_Witness ==
    /\ constructed /\ ~ExplicitSupplied /\ AppsIsObject
    /\ ResolvedHost = GITHUB_COM
    /\ Len(appsFile.json.v) = 2
    /\ KeyIsHostColon(appsFile.json.v[1][1], GITHUB_COM_AU)
    /\ \E t \in NestedTokens(appsFile.json.v[1][2]) : OAuthClass(t)
    /\ AppsMatches = {2}
    /\ UserDelegated(AppsResult)
    /\ oauthToken = AppsResult

(***************************************************************************)
(* The cache across a device flow (checked under Spec)                     *)
(***************************************************************************)
\* The cache holds the token of an exchange whose request bore a credential
\* that is no longer the manager's.
CacheOfFormerCredential ==
    CachePresent /\ exchanged # <<>> /\ exchanged[2] # oauthToken

\* C25: the poll step that installs a credential leaves the cache as it was;
\* a getValidToken() call made while the cache, obtained with a former
\* credential, is outside the refresh buffer returns the cached token of that
\* exchange and issues no request; a call made once that entry is inside the
\* buffer issues an exchange request bearing the credential now in place.
C25_CacheSurvivesFlow ==
    /\ [][\A f \in Flows :
            (PollHandled(f) /\ oauthToken' # oauthToken) =>
                (cachedToken' = cachedToken /\ exchanged' = exchanged)]_vars
    /\ [][\A c \in Callers :
            (CallStep(c) /\ CacheOfFormerCredential /\ CacheFresh) =>
                /\ gout'[c] = Return(98, exchanged[1].token)
                /\ gpc'[c] = "returned"
                /\ NoExchangeIssued
                /\ cachedToken' = cachedToken]_vars
    /\ [][\A c \in Callers :
            (CallStep(c) /\ CacheOfFormerCredential /\ ~CacheFresh) =>
                /\ gpc'[c] = "fetch"
                /\ greq'[c] = oauthToken
                /\ gfetch'[c] = ExchangeRequest(domain, oauthToken)
                /\ gfetch'[c].headers["Authorization"] # <<"Bearer ">> \o TemplateString(exchanged[2])
                /\ cachedToken' = cachedToken]_vars

\* The cache was exchanged with the constructor's credential; a poll then
\* installed the device-flow token; one caller was served the cached token
\* and, the entry having entered the buffer, another has an exchange request
\* in flight that bears the device-flow token.
C25_Witness ==
    \E c, d \in Callers :
        /\ oauthToken = DeviceToken
        /\ CachePresent /\ exchanged[2] = options.oauthToken
        /\ \E f \in Flows : Authorized(f)
        /\ gpc[d] = "returned" /\ gout[d] = Return(98, cachedToken[1].token)
        /\ ~CacheFresh
        /\ gpc[c] = "fetch" /\ greq[c] = DeviceToken

(***************************************************************************)
(* Cache and credential (checked under Spec)                               *)
(***************************************************************************)
\* C26: in every state a present cache comes with a present credential; no
\* step takes a present credential away; and the credential changes only in
\* the step of a poll call that returns true, to the access token of the
\* answer handled.
C26_CacheImpliesCredential ==
    /\ [](CachePresent => (CredentialPresent /\ Truthy(oauthToken)))
    /\ [][CredentialPresent => CredentialPresent']_vars
    /\ [][oauthToken' # oauthToken =>
            \E f \in Flows :
                /\ PollHandled(f) /\ Authorized(f)'
                /\ oauthToken' = fresp[f].data.access_token
                /\ CredentialPresent']_vars

\* A manager constructed without a credential: a poll installed the
\* device-flow token and an exchange made with it filled the cache.
C26_Witness ==
    /\ options.oauthToken = Undefined
    /\ oauthToken = DeviceToken
    /\ CachePresent
    /\ exchanged[2] = DeviceToken
    /\ \E f \in Flows : Authorized(f)

(***************************************************************************)
(* Overlapping exchanges (checked under SpecToken)                         *)
(***************************************************************************)
\* Another call has an exchange pending, or has completed one, while caller c
\* holds its response.
Overlapping(c) ==
    \E d \in Callers \ {c} :
        \/ gpc[d] \in {"fetch", "response"}
        \/ gpc[d] = "returned" /\ gout[d].line = 134

\* C27: the step in which a call handles its success response, whatever the
\* other calls are doing and whatever the cache holds, returns the token of
\* that very response, writes it to the cache in the same step, and changes
\* no other call's position, response or outcome; a token already returned
\* stays the one returned when a later write replaces the cache.
C27_OwnExchangeReturned ==
    /\ [][\A c \in Callers :
            (ExchangeHandled(c) /\ SuccessStatus(gresp[c]) /\ Overlapping(c)) =>
                /\ gout'[c] = Return(134, gresp[c].data.token)
                /\ cachedToken'[1].token = gout'[c].value
                /\ \A d \in Callers \ {c} :
                       gpc'[d] = gpc[d] /\ gresp'[d] = gresp[d] /\ gout'[d] = gout[d]]_vars
    /\ [][\A c \in Callers :
            (gpc[c] = "returned" /\ gpc'[c] = "returned" /\ cachedToken' # cachedToken) =>
                gout'[c] = gout[c]]_vars

\* Two overlapping calls both exchanged and returned different tokens: one of
\* them returned the token of its own response although the cache, written
\* by the other afterwards, holds another.
C27_Witness ==
    \E c, d \in Callers :
        /\ gout[c].kind = "return" /\ gout[c].line = 134
        /\ gout[d].kind = "return" /\ gout[d].line = 134
        /\ gout[c].value # gout[d].value
        /\ cachedToken[1].token = gout[d].value
        /\ exchanged[1].token = gout[d].value
        /\ now = 0

=============================================================================
